---- MODULE Spec2Model ----
(***************************************************************************)
(* ugly-global: Global<T>(OnceCell<Mutex<T>>) with init / fetch, and the    *)
(* demo-sync example program.                                              *)
(*                                                                         *)
(* One cell is modelled.  Its state is the OnceCell's state word and slot, *)
(* and the Mutex's lock bit and poison flag.  Every thread has a position  *)
(* (pc) inside init, inside fetch, or inside the body that uses the guard. *)
(* src/sync.rs follows the same protocol (its payload sits in a RefCell     *)
(* reached through get_mut(), its poison message is "global mutex failed").*)
(***************************************************************************)
EXTENDS Integers, Sequences, FiniteSets, TLC

\* ---- bounds ------------------------------------------------------------
NThreads == 2            \* number of threads
MaxC == 1                \* init arguments are S { x: c, y: 0 }, c in 0..MaxC
MaxX == 2                \* arbitrary callers start a body only while x < MaxX

Threads == 1..NThreads
Main == 1

\* struct S { x: usize, y: usize }
S(a, b) == [x |-> a, y |-> b]
Values == {S(c, 0) : c \in 0..MaxC}
NoVal == S(-1, -1)       \* the OnceCell's slot before any value is written

VARIABLES
    once,       \* OnceCell state: "INCOMPLETE", "RUNNING", "COMPLETE"
    slot,       \* the T inside OnceCell<Mutex<T>> (NoVal while absent)
    locked,     \* Mutex: lock bit
    poisoned,   \* Mutex: poison flag
    pc,         \* per thread: position ("unborn" before spawn, "done" at its end)
    guard,      \* per thread: owns a live MutexGuard
    err,        \* per thread: the panic message it died with ("" if none)
    arg,        \* per thread: the v of the init call in progress
    tmp,        \* per thread: the register of a += in progress
    todo,       \* per thread: the statements of its program still to run
    out,        \* the results printed so far (println! in demo), in order
    lastLeft,   \* history: the payload as of the last init / guard drop
    nInitCalls, \* history: init calls issued
    nInitOk,    \* history: init calls that returned
    nInitErr,   \* history: init calls that panicked
    winVal,     \* history: the v of the init call that returned
    incBy,      \* history, per thread: the x += 1 it has completed
    lonce,      \* thread-local X, per context: OnceCell state
    lslot,      \* thread-local X, per context: the T inside the RefCell
    lborrow,    \* thread-local X, per context: RefCell's mutable-borrow flag
    lrefs       \* per thread: the live RefMut accessors it owns

vars == <<once, slot, locked, poisoned, pc, guard, err, arg, tmp, todo, out,
          lastLeft, nInitCalls, nInitOk, nInitErr, winVal, incBy,
          lonce, lslot, lborrow, lrefs>>

localVars == <<lonce, lslot, lborrow, lrefs>>

mutexVars == <<locked, poisoned, guard, lastLeft>>
histInit == <<nInitCalls, nInitOk, nInitErr, winVal>>

Rest(s) == IF s = <<>> THEN <<>> ELSE Tail(s)

\* ---- OnceCell (once_cell::sync) ----------------------------------------
\* set(v) is get_or_init(move v): the cell's state word goes
\* INCOMPLETE -> RUNNING -> COMPLETE.  The caller that swaps INCOMPLETE for
\* RUNNING writes the slot and then stores COMPLETE; a caller that finds
\* RUNNING waits for that store; a caller that finds COMPLETE gets Err(v).
\* get() never waits: it is Some only once the state word is COMPLETE.

\* (faulty variant: get() that takes a cell being written for a full one)
OnceGet_Racy == once # "INCOMPLETE"
\* OnceCell::get() is Some
OnceGet == once = "COMPLETE"

\* (faulty variant: set() that also claims a full cell)
SetClaims_Always == once \in {"INCOMPLETE", "COMPLETE"}
\* OnceCell::set(): the caller finds the cell empty and claims it
SetClaims == once = "INCOMPLETE"

\* (faulty variant: set() that reports Err only once the payload lock is free)
SetFull_OrLocked == once = "COMPLETE" /\ ~locked
\* OnceCell::set(): the caller finds the cell full and gets Err(value)
SetFull == once = "COMPLETE"

\* ---- Mutex (std::sync) --------------------------------------------------
\* (faulty variant: lock() that does not wait for the lock bit)
CanLock_Barging == TRUE
\* Mutex::lock() proceeds only when the lock bit is clear
CanLock == ~locked

\* (faulty variant: lock() that returns Ok whatever the poison flag)
LockOk_IgnorePoison == TRUE
\* LockResult: Ok(guard) unless the poison flag is set
LockOk == ~poisoned

\* (faulty variant: a drop that never sets the poison flag)
PoisonOnDrop_Never(panicking) == poisoned
\* MutexGuard::drop: the poison flag is set when dropped during a panic
PoisonOnDrop(panicking) == poisoned \/ panicking

\* (faulty variants: a drop that keeps the lock bit when unwinding / always)
UnlockBit_Leak(panicking) == panicking
UnlockBit_Keep(panicking) == locked
\* MutexGuard::drop: the lock bit after the drop
UnlockBit(panicking) == FALSE

\* MutexGuard::drop by thread t.
MutexGuardDrop(t, panicking) ==
    /\ guard' = [guard EXCEPT ![t] = FALSE]
    /\ locked' = UnlockBit(panicking)
    /\ poisoned' = PoisonOnDrop(panicking)
    /\ lastLeft' = slot

\* (faulty variant: the failure is reported and the thread carries on)
Unwind_Absorbed(t, msg) ==
    /\ pc' = [pc EXCEPT ![t] = "idle"]
    /\ err' = [err EXCEPT ![t] = msg]
    /\ tmp' = [tmp EXCEPT ![t] = 0]
    /\ arg' = [arg EXCEPT ![t] = NoVal]
    /\ IF guard[t] THEN MutexGuardDrop(t, TRUE) ELSE UNCHANGED mutexVars

\* panic!/expect failure in thread t: the thread unwinds, dropping the
\* guard it owns (if any), and ends.  A panic ends the panicking thread
\* only (a spawned thread of std::thread); the other threads run on.
Unwind(t, msg) ==
    /\ pc' = [pc EXCEPT ![t] = "panicked"]
    /\ err' = [err EXCEPT ![t] = msg]
    /\ tmp' = [tmp EXCEPT ![t] = 0]
    /\ arg' = [arg EXCEPT ![t] = NoVal]
    /\ IF guard[t] THEN MutexGuardDrop(t, TRUE) ELSE UNCHANGED mutexVars

\* ---- Global::init ------------------------------------------------------
\* self.0.set(Mutex::new(v)): the cell is empty, this caller claims it.
\* (While the state word is RUNNING neither SetClaim nor SetFail is enabled:
\* the caller waits inside set().)
SetClaim(t) ==
    /\ pc[t] = "init_set"
    /\ SetClaims
    /\ once' = "RUNNING"
    /\ pc' = [pc EXCEPT ![t] = "init_write"]
    /\ UNCHANGED <<localVars, incBy, slot, locked, poisoned, guard, err, arg, tmp, todo, out,
                   lastLeft, histInit>>

\* the claiming caller moves Mutex::new(v) into the slot
SetWrite(t) ==
    /\ pc[t] = "init_write"
    /\ slot' = arg[t]
    /\ locked' = FALSE
    /\ poisoned' = FALSE
    /\ pc' = [pc EXCEPT ![t] = "init_publish"]
    /\ UNCHANGED <<localVars, incBy, once, guard, err, arg, tmp, todo, out, lastLeft, histInit>>

\* the claiming caller publishes the value; set returns Ok, init returns
SetPublish(t) ==
    /\ pc[t] = "init_publish"
    /\ once' = "COMPLETE"
    /\ lastLeft' = slot
    /\ nInitOk' = nInitOk + 1
    /\ winVal' = arg[t]
    /\ arg' = [arg EXCEPT ![t] = NoVal]
    /\ pc' = [pc EXCEPT ![t] = "idle"]
    /\ UNCHANGED <<localVars, incBy, slot, locked, poisoned, guard, err, tmp, todo, out,
                   nInitCalls, nInitErr>>

\* (faulty variant: a set that stores the new value and then reports Err)
SetFail_Overwrite(t) ==
    /\ pc[t] = "init_set"
    /\ SetFull
    /\ nInitErr' = nInitErr + 1
    /\ slot' = arg[t]
    /\ Unwind(t, "initialization failed")
    /\ UNCHANGED <<localVars, incBy, once, todo, out, nInitCalls, nInitOk, winVal>>

\* set returns Err: panic!("initialization failed")
SetFail(t) ==
    /\ pc[t] = "init_set"
    /\ SetFull
    /\ nInitErr' = nInitErr + 1
    /\ Unwind(t, "initialization failed")
    /\ UNCHANGED <<localVars, incBy, once, slot, todo, out, nInitCalls, nInitOk, winVal>>

\* ---- Global::fetch -----------------------------------------------------
\* (faulty variant: a fetch that fills an empty cell with a default value,
\* as get_or_init would)
FetchGet_Default(t) ==
    /\ pc[t] = "fetch_get"
    /\ IF OnceGet
       THEN UNCHANGED <<once, slot>>
       ELSE once' = "COMPLETE" /\ slot' = S(0, 0)
    /\ pc' = [pc EXCEPT ![t] = "fetch_lock"]
    /\ UNCHANGED <<localVars, incBy, err, tmp, arg, mutexVars, todo, out, histInit>>

\* self.0.get().expect("global uninitialized")
FetchGet(t) ==
    /\ pc[t] = "fetch_get"
    /\ IF OnceGet
       THEN /\ pc' = [pc EXCEPT ![t] = "fetch_lock"]
            /\ UNCHANGED <<localVars, incBy, err, tmp, arg, mutexVars>>
       ELSE Unwind(t, "global uninitialized")
    /\ UNCHANGED <<localVars, incBy, once, slot, todo, out, histInit>>

\* .lock(): blocks until the lock bit is clear, then takes it
FetchLock(t) ==
    /\ pc[t] = "fetch_lock"
    /\ CanLock
    /\ locked' = TRUE
    /\ guard' = [guard EXCEPT ![t] = TRUE]
    /\ pc' = [pc EXCEPT ![t] = "fetch_expect"]
    /\ UNCHANGED <<localVars, incBy, once, slot, poisoned, err, arg, tmp, todo, out, lastLeft,
                   histInit>>

\* .lock() by the thread that already owns the guard: std leaves it
\* unspecified (deadlock or panic); the deadlock is FetchLock never enabled.
FetchLockSelf(t) ==
    /\ pc[t] = "fetch_lock"
    /\ guard[t]
    /\ Unwind(t, "lock reentered")
    /\ UNCHANGED <<localVars, incBy, once, slot, todo, out, histInit>>

\* .expect("global lock poisoned")
FetchExpect(t) ==
    /\ pc[t] = "fetch_expect"
    /\ IF LockOk
       THEN /\ pc' = [pc EXCEPT ![t] = "cs"]
            /\ UNCHANGED <<localVars, incBy, err, tmp, arg, mutexVars>>
       ELSE Unwind(t, "global lock poisoned")
    /\ UNCHANGED <<localVars, incBy, once, slot, todo, out, histInit>>

\* ---- the body of demo(), run with the guard s ---------------------------
\* s.x += 1 (load)
LoadX(t) ==
    /\ pc[t] = "cs"
    /\ tmp' = [tmp EXCEPT ![t] = slot.x]
    /\ pc' = [pc EXCEPT ![t] = "cs_x"]
    /\ UNCHANGED <<localVars, incBy, once, slot, mutexVars, err, arg, todo, out, histInit>>

\* s.x += 1 (store)
StoreX(t) ==
    /\ pc[t] = "cs_x"
    /\ slot' = [slot EXCEPT !.x = tmp[t] + 1]
    /\ tmp' = [tmp EXCEPT ![t] = 0]
    /\ incBy' = [incBy EXCEPT ![t] = @ + 1]
    /\ pc' = [pc EXCEPT ![t] = "cs_y"]
    /\ UNCHANGED <<localVars, once, mutexVars, err, arg, todo, out, histInit>>

\* s.y += 2 (load)
LoadY(t) ==
    /\ pc[t] = "cs_y"
    /\ tmp' = [tmp EXCEPT ![t] = slot.y]
    /\ pc' = [pc EXCEPT ![t] = "cs_y2"]
    /\ UNCHANGED <<localVars, incBy, once, slot, mutexVars, err, arg, todo, out, histInit>>

\* s.y += 2 (store)
StoreY(t) ==
    /\ pc[t] = "cs_y2"
    /\ slot' = [slot EXCEPT !.y = tmp[t] + 2]
    /\ tmp' = [tmp EXCEPT ![t] = 0]
    /\ pc' = [pc EXCEPT ![t] = "cs_r"]
    /\ UNCHANGED <<localVars, incBy, once, mutexVars, err, arg, todo, out, histInit>>

\* let result = s.x + s.y; println!(...)
Result(t) ==
    /\ pc[t] = "cs_r"
    /\ out' = Append(out, slot.x + slot.y)
    /\ pc' = [pc EXCEPT ![t] = "cs_end"]
    /\ UNCHANGED <<localVars, incBy, once, slot, mutexVars, err, arg, tmp, todo, histInit>>

\* end of demo(): the guard s goes out of scope
DropEnd(t) ==
    /\ pc[t] = "cs_end"
    /\ MutexGuardDrop(t, FALSE)
    /\ pc' = [pc EXCEPT ![t] = "idle"]
    /\ todo' = [todo EXCEPT ![t] = Rest(todo[t])]
    /\ UNCHANGED <<localVars, incBy, once, slot, err, arg, tmp, out, histInit>>

BodyPcs == {"cs", "cs_x", "cs_y", "cs_y2", "cs_r", "cs_end"}

\* ---- arbitrary callers of the library ----------------------------------
\* X.init(v), from outside or inside a scope holding a guard
CallInit(t, v) ==
    /\ pc[t] \in {"idle", "cs"}
    /\ arg' = [arg EXCEPT ![t] = v]
    /\ nInitCalls' = nInitCalls + 1
    /\ pc' = [pc EXCEPT ![t] = "init_set"]
    /\ UNCHANGED <<localVars, incBy, once, slot, mutexVars, err, tmp, todo, out,
                   nInitOk, nInitErr, winVal>>

\* X.fetch(), from outside or inside a scope holding a guard
CallFetch(t) ==
    /\ pc[t] \in {"idle", "cs"}
    /\ pc' = [pc EXCEPT ![t] = "fetch_get"]
    /\ UNCHANGED <<localVars, incBy, once, slot, mutexVars, err, arg, tmp, todo, out, histInit>>

\* a caller's scope ends between two statements of the body (early return)
EarlyReturn(t) ==
    /\ pc[t] \in {"cs", "cs_y", "cs_r"}
    /\ MutexGuardDrop(t, FALSE)
    /\ pc' = [pc EXCEPT ![t] = "idle"]
    /\ tmp' = [tmp EXCEPT ![t] = 0]
    /\ UNCHANGED <<localVars, incBy, once, slot, err, arg, todo, out, histInit>>

\* a caller's code panics inside the scope holding the guard
PanicInScope(t) ==
    /\ pc[t] \in BodyPcs
    /\ Unwind(t, "caller panicked")
    /\ UNCHANGED <<localVars, incBy, once, slot, todo, out, histInit>>

\* ---- specification: any threads, any calls -----------------------------
Init ==
    /\ once = "INCOMPLETE"
    /\ slot = NoVal
    /\ locked = FALSE
    /\ poisoned = FALSE
    /\ pc = [t \in Threads |-> "idle"]
    /\ guard = [t \in Threads |-> FALSE]
    /\ err = [t \in Threads |-> ""]
    /\ arg = [t \in Threads |-> NoVal]
    /\ tmp = [t \in Threads |-> 0]
    /\ todo = [t \in Threads |-> <<>>]
    /\ out = <<>>
    /\ lastLeft = NoVal
    /\ nInitCalls = 0
    /\ nInitOk = 0
    /\ nInitErr = 0
    /\ winVal = NoVal
    /\ incBy = [t \in Threads |-> 0]
    /\ lonce = [c \in Threads |-> "INCOMPLETE"]
    /\ lslot = [c \in Threads |-> NoVal]
    /\ lborrow = [c \in Threads |-> FALSE]
    /\ lrefs = [t \in Threads |-> 0]

Next ==
    \E t \in Threads :
        \/ \E v \in Values : CallInit(t, v)
        \/ SetClaim(t)
        \/ SetWrite(t)
        \/ SetPublish(t)
        \/ SetFail(t)
        \/ CallFetch(t)
        \/ FetchGet(t)
        \/ FetchLock(t)
        \/ FetchLockSelf(t)
        \/ FetchExpect(t)
        \/ (slot.x < MaxX /\ LoadX(t))
        \/ StoreX(t)
        \/ LoadY(t)
        \/ StoreY(t)
        \/ Result(t)
        \/ DropEnd(t)
        \/ EarlyReturn(t)
        \/ PanicInScope(t)

Spec == Init /\ [][Next]_vars

\* ---- examples/demo-sync.rs: main and the spawned thread ----------------
Spawned == 2

\* init!(GLOBAL_S = S { x: 0, y: 0 })
MainInit(t) ==
    /\ pc[t] = "idle"
    /\ todo[t] # <<>>
    /\ Head(todo[t]) = "init"
    /\ arg' = [arg EXCEPT ![t] = S(0, 0)]
    /\ nInitCalls' = nInitCalls + 1
    /\ pc' = [pc EXCEPT ![t] = "init_set"]
    /\ todo' = [todo EXCEPT ![t] = Tail(todo[t])]
    /\ UNCHANGED <<localVars, incBy, once, slot, mutexVars, err, tmp, out, nInitOk,
                   nInitErr, winVal>>

\* let t = std::thread::spawn(|| demo())
MainSpawn(t) ==
    /\ pc[t] = "idle"
    /\ todo[t] # <<>>
    /\ Head(todo[t]) = "spawn"
    /\ pc' = [pc EXCEPT ![Spawned] = "idle"]
    /\ todo' = [todo EXCEPT ![t] = Tail(todo[t])]
    /\ UNCHANGED <<localVars, incBy, once, slot, mutexVars, err, arg, tmp, out, histInit>>

\* demo(): fetch!(s = GLOBAL_S)
DemoFetch(t) ==
    /\ pc[t] = "idle"
    /\ todo[t] # <<>>
    /\ Head(todo[t]) = "demo"
    /\ pc' = [pc EXCEPT ![t] = "fetch_get"]
    /\ UNCHANGED <<localVars, incBy, once, slot, mutexVars, err, arg, tmp, todo, out,
                   histInit>>

\* t.join().unwrap()
MainJoin(t) ==
    /\ pc[t] = "idle"
    /\ todo[t] # <<>>
    /\ Head(todo[t]) = "join"
    /\ pc[Spawned] \in {"done", "panicked"}
    /\ IF pc[Spawned] = "panicked"
       THEN Unwind(t, "join unwrap")
       ELSE /\ pc' = [pc EXCEPT ![t] = "done"]
            /\ UNCHANGED <<err, tmp, arg, mutexVars>>
    /\ todo' = [todo EXCEPT ![t] = Tail(todo[t])]
    /\ UNCHANGED <<localVars, incBy, once, slot, out, histInit>>

\* the spawned closure returns
ThreadEnd(t) ==
    /\ t # Main
    /\ pc[t] = "idle"
    /\ todo[t] = <<>>
    /\ pc' = [pc EXCEPT ![t] = "done"]
    /\ UNCHANGED <<localVars, incBy, once, slot, mutexVars, err, arg, tmp, todo, out,
                   histInit>>

\* (faulty variant: a main that spawns the thread before it calls init!)
MainProgram_SpawnFirst == <<"spawn", "init", "demo", "demo", "join">>

\* the statements of main, in program order
MainProgram == <<"init", "spawn", "demo", "demo", "join">>

InitDemo ==
    /\ once = "INCOMPLETE"
    /\ slot = NoVal
    /\ locked = FALSE
    /\ poisoned = FALSE
    /\ pc = [t \in Threads |->
                IF t = Main THEN "idle" ELSE IF t = Spawned THEN "unborn" ELSE "done"]
    /\ guard = [t \in Threads |-> FALSE]
    /\ err = [t \in Threads |-> ""]
    /\ arg = [t \in Threads |-> NoVal]
    /\ tmp = [t \in Threads |-> 0]
    /\ todo = [t \in Threads |->
                IF t = Main THEN MainProgram
                ELSE IF t = Spawned THEN <<"demo">> ELSE <<>>]
    /\ out = <<>>
    /\ lastLeft = NoVal
    /\ nInitCalls = 0
    /\ nInitOk = 0
    /\ nInitErr = 0
    /\ winVal = NoVal
    /\ incBy = [t \in Threads |-> 0]
    /\ lonce = [c \in Threads |-> "INCOMPLETE"]
    /\ lslot = [c \in Threads |-> NoVal]
    /\ lborrow = [c \in Threads |-> FALSE]
    /\ lrefs = [t \in Threads |-> 0]

NextDemo ==
    \E t \in Threads :
        \/ MainInit(t)
        \/ MainSpawn(t)
        \/ DemoFetch(t)
        \/ MainJoin(t)
        \/ ThreadEnd(t)
        \/ SetClaim(t)
        \/ SetWrite(t)
        \/ SetPublish(t)
        \/ FetchGet(t)
        \/ FetchLock(t)
        \/ FetchExpect(t)
        \/ LoadX(t)
        \/ StoreX(t)
        \/ LoadY(t)
        \/ StoreY(t)
        \/ Result(t)
        \/ DropEnd(t)

SpecDemo == InitDemo /\ [][NextDemo]_vars

\* ---- specification: threads that fetch and release for ever ------------
\* One init, then every thread may fetch again and again; no caller panics
\* and none calls fetch or init inside a scope holding the guard.
NextLive ==
    \E t \in Threads :
        \/ \E v \in Values : (t = Main /\ nInitCalls = 0 /\ CallInit(t, v))
        \/ SetClaim(t)
        \/ SetWrite(t)
        \/ SetPublish(t)
        \/ (pc[t] = "idle" /\ OnceGet /\ CallFetch(t))
        \/ FetchGet(t)
        \/ FetchLock(t)
        \/ FetchExpect(t)
        \/ (slot.x < MaxX /\ LoadX(t))
        \/ StoreX(t)
        \/ LoadY(t)
        \/ StoreY(t)
        \/ Result(t)
        \/ DropEnd(t)
        \/ EarlyReturn(t)

\* what a thread does once it is inside init, inside fetch or inside the
\* scope holding the guard
Running(t) ==
    \/ SetClaim(t)
    \/ SetWrite(t)
    \/ SetPublish(t)
    \/ FetchGet(t)
    \/ FetchLock(t)
    \/ FetchExpect(t)
    \/ (slot.x < MaxX /\ LoadX(t))
    \/ StoreX(t)
    \/ LoadY(t)
    \/ StoreY(t)
    \/ Result(t)
    \/ DropEnd(t)
    \/ EarlyReturn(t)

\* The scheduler runs every thread that can run, so a guard holder always
\* reaches the end of its scope.  std's Mutex hands the lock to whichever
\* thread takes the lock bit first: a thread parked in lock() can run only
\* while the bit is clear, so it gets weak fairness and no more.
SpecLive == Init /\ [][NextLive]_vars /\ \A t \in Threads : WF_vars(Running(t))

\* ---- properties --------------------------------------------------------
Holders == {t \in Threads : guard[t]}
InitPcs == {"init_set", "init_write", "init_publish"}
InitQuiet == \A t \in Threads : pc[t] \notin InitPcs

RECURSIVE SumInc(_)
SumInc(T) ==
    IF T = {} THEN 0
    ELSE LET t == CHOOSE u \in T : TRUE IN incBy[t] + SumInc(T \ {t})

\* C1: at most one thread holds a live guard, a live guard means the lock
\* bit is set, and a thread obtains its guard only in a step that starts
\* with no other thread holding one.
C1_MutualExclusion ==
    /\ [](Cardinality(Holders) <= 1 /\ (Holders # {} => locked))
    /\ [][\A t \in Threads :
            (~guard[t] /\ guard'[t]) => (\A u \in Threads \ {t} : ~guard[u])]_vars

C1_Witness ==
    \E t, u \in Threads :
        /\ t # u
        /\ guard[t] /\ pc[t] \in BodyPcs
        /\ pc[u] = "fetch_lock" /\ ~guard[u]

\* C2: at most one init call ever returns; once no init call is in flight
\* and N >= 2 were issued, exactly one returned and N-1 panicked; the step
\* in which the winning call returns leaves its own v in the cell, and no
\* step of an init call changes the payload of a cell that is already full.
C2_SingleInit ==
    /\ [](/\ nInitOk <= 1
          /\ (InitQuiet /\ nInitCalls >= 2) =>
                (nInitOk = 1 /\ nInitErr = nInitCalls - 1))
    /\ [][\A t \in Threads :
            /\ (pc[t] = "init_publish" /\ pc'[t] # pc[t]) =>
                    (slot' = arg[t] /\ winVal' = arg[t])
            /\ (pc[t] \in InitPcs /\ pc'[t] # pc[t] /\ nInitOk = 1) =>
                    slot' = slot]_vars

C2_Witness ==
    /\ InitQuiet
    /\ nInitCalls >= 3
    /\ nInitOk = 1
    /\ nInitErr = nInitCalls - 1
    /\ \E t \in Threads : err[t] = "initialization failed"
    /\ slot = winVal

\* C3: while no init has returned, a thread inside fetch can always take
\* its step (it is never blocked), that step ends the thread with
\* "global uninitialized", and no thread owns a guard.
C3_NoPrematureAccess ==
    /\ [](nInitOk = 0 =>
            /\ \A t \in Threads : ~guard[t]
            /\ \A t \in Threads : pc[t] = "fetch_get" => ENABLED FetchGet(t))
    /\ [][\A t \in Threads :
            (nInitOk = 0 /\ pc[t] = "fetch_get" /\ pc'[t] # pc[t]) =>
                /\ pc'[t] = "panicked"
                /\ err'[t] = "global uninitialized"
                /\ ~guard'[t]]_vars

C3_Witness ==
    /\ once = "RUNNING"
    /\ \E t \in Threads : pc[t] = "panicked" /\ err[t] = "global uninitialized"

\* C4: the counter x equals the x of the winning init plus the number of
\* x += 1 completed under a guard, in every state; so after N threads have
\* each fetched, incremented once and released, x = c + N.
C4_NoLostUpdates ==
    once = "COMPLETE" => slot.x = winVal.x + SumInc(Threads)

C4_Witness ==
    /\ \A t \in Threads : incBy[t] = 1 /\ pc[t] = "idle"
    /\ Holders = {}
    /\ slot.x = winVal.x + NThreads

\* C7: in demo-sync the k-th result printed is 3k, and when main has
\* returned three results were printed and the cell holds x = 3, y = 6.
C7_DemoScenario ==
    /\ \A k \in 1..Len(out) : out[k] = 3 * k
    /\ pc[Main] = "done" => (out = <<3, 6, 9>> /\ slot = S(3, 6))

C7_Witness ==
    /\ pc[Main] = "done"
    /\ pc[Spawned] = "done"
    /\ out = <<3, 6, 9>>

\* C8: the payload a thread finds when fetch has just returned its guard,
\* and the payload of a full cell while no guard is live, is the payload as
\* the previous holder left it when its guard was dropped (or the init
\* value when there was none).
C8_Visibility ==
    /\ \A t \in Threads : (pc[t] = "cs" /\ guard[t]) => slot = lastLeft
    /\ (once = "COMPLETE" /\ Holders = {}) => slot = lastLeft

C8_Witness ==
    \E t \in Threads :
        /\ pc[t] = "cs" /\ guard[t]
        /\ slot = lastLeft
        /\ slot.x > winVal.x

\* the next fetch on the cell would return a guard
Fetchable == once = "COMPLETE" /\ ~locked /\ ~poisoned

\* C5 (as claimed): whatever way the scope holding a guard is left, the
\* lock is released and the next fetch obtains a guard.
C5_ReleaseOnAnyExit ==
    [][\A t \in Threads :
        (pc[t] \in BodyPcs /\ guard[t] /\ ~guard'[t]) => Fetchable']_vars

\* C5 (amended): whatever way the scope holding a guard is left, the lock
\* bit is cleared; after the end of the scope or an early return the next
\* fetch obtains a guard; after a panic inside the scope the cell is
\* poisoned (the next fetch fails instead of obtaining a guard).
C5_ReleaseOnExit ==
    [][\A t \in Threads :
        (pc[t] \in BodyPcs /\ guard[t] /\ ~guard'[t]) =>
            /\ ~locked'
            /\ Holders' = {}
            /\ IF pc'[t] = "panicked" THEN poisoned' ELSE Fetchable']_vars

C5_Witness ==
    \E t, u \in Threads :
        /\ pc[t] = "panicked" /\ err[t] = "caller panicked"
        /\ pc[u] = "fetch_lock"
        /\ ~locked /\ poisoned

\* C6: a thread that panics while it owns a guard leaves the poison flag
\* set; the flag is never cleared; and while it is set every fetch that
\* gets as far as the lock ends with "global lock poisoned" (not "global
\* uninitialized"), no thread is inside a scope holding the guard, and no
\* fetch returns one.
C6_Poisoning ==
    /\ [](poisoned => \A t \in Threads : pc[t] \notin BodyPcs)
    /\ [][\A t \in Threads :
            /\ (guard[t] /\ pc'[t] = "panicked") => poisoned'
            /\ poisoned => poisoned'
            /\ (poisoned /\ pc[t] = "fetch_expect" /\ pc'[t] # pc[t]) =>
                    /\ pc'[t] = "panicked"
                    /\ err'[t] = "global lock poisoned"
                    /\ ~guard'[t]
            /\ (poisoned /\ pc[t] = "fetch_get" /\ pc'[t] # pc[t]) =>
                    pc'[t] = "fetch_lock"]_vars

C6_Witness ==
    \E t, u \in Threads :
        /\ err[t] = "caller panicked"
        /\ err[u] = "global lock poisoned"
        /\ poisoned /\ ~locked

\* a step of thread t inside init
InitStep(t) == SetClaim(t) \/ SetWrite(t) \/ SetPublish(t) \/ SetFail(t)

\* C9 (as claimed): a thread inside init can always take its next step.
C9_InitNeverWaits ==
    \A t \in Threads : pc[t] \in InitPcs => ENABLED InitStep(t)

\* C9 (amended): a thread inside init can take its next step whatever the
\* lock bit, the poison flag and the guards are; it waits only in set(),
\* and only while another init call is between claiming the cell and
\* publishing its value, and that call can itself always step.
C9_InitWaitsOnlyForInit ==
    /\ \A t \in Threads :
        (pc[t] \in InitPcs /\ ~(pc[t] = "init_set" /\ once = "RUNNING")) =>
            ENABLED InitStep(t)
    /\ once = "RUNNING" =>
        \E u \in Threads :
            pc[u] \in {"init_write", "init_publish"} /\ ENABLED InitStep(u)

C9_Witness ==
    \E t, u \in Threads :
        /\ t # u
        /\ pc[t] = "init_set"
        /\ guard[u] /\ locked /\ pc[u] \in BodyPcs
        /\ ENABLED InitStep(t)

\* C10 (as claimed): a thread blocked in fetch eventually owns the guard.
C10_NoStarvation ==
    \A t \in Threads : (pc[t] = "fetch_lock") ~> guard[t]

\* C10 (amended): while a thread is blocked in fetch the lock is always
\* released again, and once it is free some thread's lock() takes it; the
\* blocked thread is not promised to be that thread.
C10_LockHandedOn ==
    \A t \in Threads :
        /\ (pc[t] = "fetch_lock") ~> ~locked
        /\ (pc[t] = "fetch_lock" /\ ~locked) ~>
                (\E u \in Threads : pc[u] = "fetch_expect")

C10_Witness ==
    \E t, u \in Threads :
        /\ pc[t] = "fetch_lock" /\ ~guard[t]
        /\ guard[u] /\ locked /\ incBy[u] >= 1

\* the three failures Global::init and Global::fetch signal
LibErrs == {"initialization failed", "global uninitialized", "global lock poisoned"}
\* (a failure of a spawned thread: the main thread's panic ends the process)
Signalled == \E t \in Threads \ {Main} : err[t] \in LibErrs

\* C11 (as claimed): once the init or fetch of a thread (here: of a spawned
\* thread) has signalled a failure the process is gone: no thread obtains a
\* guard and the payload of the full cell is not changed any more.
C11_ProcessAborts ==
    [][Signalled =>
        /\ \A u \in Threads : guard'[u] => guard[u]
        /\ once = "COMPLETE" => slot' = slot]_vars

\* C11 (amended): a failure ends the thread that signalled it, and only
\* that thread: it owns no guard, and it stays ended with its message; no
\* failure is absorbed by the thread that met it.
C11_ThreadEnds ==
    /\ [](\A t \in Threads :
            err[t] # "" => (pc[t] = "panicked" /\ ~guard[t] /\ lrefs[t] = 0))
    /\ [][\A t \in Threads :
            pc[t] = "panicked" =>
                (pc'[t] = "panicked" /\ err'[t] = err[t] /\ ~guard'[t])]_vars

C11_Witness ==
    \E t \in Threads \ {Main}, u \in Threads :
        /\ pc[t] = "panicked" /\ err[t] = "global uninitialized"
        /\ pc[u] = "cs_end" /\ guard[u] /\ incBy[u] >= 1

\* C12: a full cell stays full, its slot holds a value, and from the
\* moment an init has returned no fetch ends with "global uninitialized".
C12_NoReset ==
    /\ [](nInitOk >= 1 => (once = "COMPLETE" /\ slot # NoVal))
    /\ [][/\ once = "COMPLETE" => once' = "COMPLETE"
          /\ \A t \in Threads :
                (nInitOk >= 1 /\ pc[t] = "fetch_get" /\ pc'[t] # pc[t]) =>
                    (pc'[t] = "fetch_lock" /\ err'[t] = err[t])]_vars

C12_Witness ==
    /\ once = "COMPLETE"
    /\ poisoned
    /\ \E t, u \in Threads :
        /\ err[t] = "initialization failed"
        /\ pc[u] = "fetch_lock"

\* ---- thread-local-poc/global.rs: thread_local! { static X: Global<S> } --
\* Global<T> = OnceCell<RefCell<T>>; every thread that touches X gets its
\* own instance, and only that thread ever reaches it (X.with).
globalVars == <<once, slot, locked, poisoned, guard, tmp, todo, out, lastLeft,
                nInitCalls, nInitOk, nInitErr, winVal, incBy>>

\* (faulty variant: a plain static, one instance for every thread)
Ctx_Shared(t) == Main
\* X.with(|s| ..): the instance of X that thread t reaches
Ctx(t) == t

\* (faulty variant: borrow_mut that does not look at the borrow flag)
BorrowFree_Unchecked(c) == TRUE
\* RefCell::borrow_mut succeeds only while the value is not borrowed
BorrowFree(c) == ~lborrow[c]

\* a panic in thread t: it unwinds, dropping the RefMut it owns, and ends
LUnwind(t, msg) ==
    /\ pc' = [pc EXCEPT ![t] = "panicked"]
    /\ err' = [err EXCEPT ![t] = msg]
    /\ arg' = [arg EXCEPT ![t] = NoVal]
    /\ IF lrefs[t] > 0
       THEN /\ lborrow' = [lborrow EXCEPT ![Ctx(t)] = FALSE]
            /\ lrefs' = [lrefs EXCEPT ![t] = 0]
       ELSE UNCHANGED <<lborrow, lrefs>>

\* X.with(|s| init(s, v))
LCallInit(t, v) ==
    /\ pc[t] \in {"idle", "l_cs"}
    /\ arg' = [arg EXCEPT ![t] = v]
    /\ pc' = [pc EXCEPT ![t] = "l_init"]
    /\ UNCHANGED <<err, localVars, globalVars>>

\* init: if let Err(_) = x.set(RefCell::new(v)) { panic!("oops") }
LSet(t) ==
    /\ pc[t] = "l_init"
    /\ IF lonce[Ctx(t)] = "INCOMPLETE"
       THEN /\ lonce' = [lonce EXCEPT ![Ctx(t)] = "COMPLETE"]
            /\ lslot' = [lslot EXCEPT ![Ctx(t)] = arg[t]]
            /\ arg' = [arg EXCEPT ![t] = NoVal]
            /\ pc' = [pc EXCEPT ![t] = "idle"]
            /\ UNCHANGED <<err, lborrow, lrefs>>
       ELSE /\ LUnwind(t, "oops")
            /\ UNCHANGED <<lonce, lslot>>
    /\ UNCHANGED globalVars

\* X.with(|s| { let mut s = get(s); ..
LCallGet(t) ==
    /\ pc[t] \in {"idle", "l_cs"}
    /\ pc' = [pc EXCEPT ![t] = "l_get"]
    /\ UNCHANGED <<err, arg, localVars, globalVars>>

\* get: x.get().unwrap().borrow_mut()
LGet(t) ==
    /\ pc[t] = "l_get"
    /\ IF lonce[Ctx(t)] # "COMPLETE"
       THEN LUnwind(t, "unwrap on None")
       ELSE IF BorrowFree(Ctx(t))
       THEN /\ lborrow' = [lborrow EXCEPT ![Ctx(t)] = TRUE]
            /\ lrefs' = [lrefs EXCEPT ![t] = @ + 1]
            /\ pc' = [pc EXCEPT ![t] = "l_cs"]
            /\ UNCHANGED <<err, arg>>
       ELSE LUnwind(t, "already borrowed")
    /\ UNCHANGED <<lonce, lslot, globalVars>>

\* s.x += 1
LIncX(t) ==
    /\ pc[t] = "l_cs"
    /\ lslot' = [lslot EXCEPT ![Ctx(t)].x = @ + 1]
    /\ pc' = [pc EXCEPT ![t] = "l_cs_y"]
    /\ UNCHANGED <<err, arg, lonce, lborrow, lrefs, globalVars>>

\* s.y += 2
LIncY(t) ==
    /\ pc[t] = "l_cs_y"
    /\ lslot' = [lslot EXCEPT ![Ctx(t)].y = @ + 2]
    /\ pc' = [pc EXCEPT ![t] = "l_cs_end"]
    /\ UNCHANGED <<err, arg, lonce, lborrow, lrefs, globalVars>>

\* result, println!, end of the closure: the RefMut s is dropped
LEnd(t) ==
    /\ pc[t] = "l_cs_end"
    /\ lborrow' = [lborrow EXCEPT ![Ctx(t)] = FALSE]
    /\ lrefs' = [lrefs EXCEPT ![t] = @ - 1]
    /\ pc' = [pc EXCEPT ![t] = "idle"]
    /\ UNCHANGED <<err, arg, lonce, lslot, globalVars>>

NextLocal ==
    \E t \in Threads :
        \/ \E v \in Values : LCallInit(t, v)
        \/ LSet(t)
        \/ LCallGet(t)
        \/ LGet(t)
        \/ (lslot[Ctx(t)].x < MaxX /\ LIncX(t))
        \/ LIncY(t)
        \/ LEnd(t)

SpecLocal == Init /\ [][NextLocal]_vars

\* C13: a step changes the thread-local cell (filled or empty, payload,
\* borrow flag, accessors) of no thread but the one that takes the step,
\* and a thread's cell becomes filled only by that thread's own init.
C13_ContextIsolation ==
    [][\A t \in Threads :
        /\ pc'[t] = pc[t] =>
            /\ lonce'[t] = lonce[t]
            /\ lslot'[t] = lslot[t]
            /\ lborrow'[t] = lborrow[t]
            /\ lrefs'[t] = lrefs[t]
        /\ lonce'[t] # lonce[t] => pc[t] = "l_init"]_vars

C13_Witness ==
    \E t, u \in Threads :
        /\ lonce[t] = "COMPLETE" /\ lslot[t].x > 0 /\ lslot[t].y > 0
        /\ lonce[u] = "INCOMPLETE" /\ lslot[u] = NoVal
        /\ err[u] = "unwrap on None"

\* C19: a thread owns at most one live accessor to its cell and the borrow
\* flag is set exactly while it owns one; a get issued while it owns one
\* ends in "already borrowed" without a second accessor; a get on a filled
\* cell issued while it owns none returns the accessor.
C19_SoleAccess ==
    /\ [](\A t \in Threads : lrefs[t] <= 1 /\ (lborrow[t] <=> lrefs[t] = 1))
    /\ [][\A t \in Threads :
            (pc[t] = "l_get" /\ pc'[t] # pc[t] /\ lonce[t] = "COMPLETE") =>
                IF lrefs[t] >= 1
                THEN /\ pc'[t] = "panicked"
                     /\ err'[t] = "already borrowed"
                     /\ lrefs'[t] = 0
                ELSE /\ pc'[t] = "l_cs"
                     /\ lrefs'[t] = 1]_vars

C19_Witness ==
    \E t \in Threads :
        /\ pc[t] = "l_cs" /\ lrefs[t] = 1
        /\ lslot[t].x > 0 /\ lslot[t].y > 0
        /\ \E u \in Threads : err[u] = "already borrowed"

\* C14: a fetch either ends with "global uninitialized" or goes on to the
\* lock of a full cell; whoever owns a guard owns it on a cell whose slot
\* holds a value; and the payload found by the first fetch to return,
\* before any x += 1, is the whole v of the init call that returned.
C14_FetchRacingInit ==
    /\ [](\A t \in Threads :
            /\ guard[t] => (once = "COMPLETE" /\ slot # NoVal /\ nInitOk = 1)
            /\ (guard[t] /\ pc[t] = "cs" /\ SumInc(Threads) = 0) => slot = winVal)
    /\ [][\A t \in Threads :
            (pc[t] = "fetch_get" /\ pc'[t] # pc[t]) =>
                \/ /\ pc'[t] = "panicked"
                   /\ err'[t] = "global uninitialized"
                   /\ nInitOk = 0
                \/ /\ pc'[t] = "fetch_lock"
                   /\ slot \in Values \/ SumInc(Threads) > 0
                   /\ nInitOk = 1]_vars

C14_Witness ==
    \E t, u \in Threads :
        /\ pc[t] = "cs" /\ guard[t] /\ slot = winVal /\ SumInc(Threads) = 0
        /\ err[u] = "global uninitialized"

\* C15: a thread that calls fetch while it owns a guard cannot take the
\* lock (it waits on itself); the only way it leaves lock() is the panic,
\* which drops its one guard; it never gets as far as a second guard.
C15_NoReentrantGuard ==
    /\ [](\A t \in Threads :
            /\ (guard[t] /\ pc[t] = "fetch_lock") => ~ENABLED FetchLock(t)
            /\ (pc[t] \in {"fetch_get", "fetch_lock"} /\ guard[t]) => locked)
    /\ [][\A t \in Threads :
            (guard[t] /\ pc[t] = "fetch_lock" /\ pc'[t] # pc[t]) =>
                /\ pc'[t] = "panicked"
                /\ ~guard'[t]]_vars

C15_Witness ==
    \E t \in Threads :
        /\ pc[t] = "fetch_lock" /\ guard[t] /\ locked
        /\ incBy[t] >= 1

\* C17: the step in which an init call of a thread that owns no guard
\* fails changes neither the state word, the payload, the lock bit, the
\* guards nor the poison flag; and an init call on a full cell can take
\* that step whatever the lock bit is.
C17_FailedInitNoOp ==
    /\ [](\A t \in Threads :
            (pc[t] = "init_set" /\ once = "COMPLETE") => ENABLED SetFail(t))
    /\ [][\A t \in Threads :
            (pc[t] = "init_set" /\ ~guard[t] /\ pc'[t] = "panicked") =>
                /\ err'[t] = "initialization failed"
                /\ once' = once
                /\ slot' = slot
                /\ locked' = locked
                /\ guard' = guard
                /\ poisoned' = poisoned]_vars

C17_Witness ==
    \E t, u \in Threads :
        /\ err[t] = "initialization failed"
        /\ guard[u] /\ pc[u] \in BodyPcs /\ locked /\ ~poisoned
        /\ slot.x > winVal.x

\* C18: the step in which a fetch ends with "global uninitialized" leaves
\* the state word, the slot and the mutex as they were; while no init has
\* returned the cell is not full; and an init call that finds the cell
\* empty can claim it.
C18_FailedFetchNoOp ==
    /\ [](/\ nInitOk = 0 => once # "COMPLETE"
          /\ \A t \in Threads :
                (pc[t] = "init_set" /\ once = "INCOMPLETE") => ENABLED SetClaim(t))
    /\ [][\A t \in Threads :
            (pc[t] = "fetch_get" /\ pc'[t] # pc[t] /\ nInitOk = 0) =>
                /\ err'[t] = "global uninitialized"
                /\ once' = once
                /\ slot' = slot
                /\ UNCHANGED <<locked, poisoned, guard>>]_vars

C18_Witness ==
    /\ \E t \in Threads : err[t] = "global uninitialized"
    /\ \A t \in Threads : err[t] # "initialization failed"
    /\ nInitCalls = 1 /\ nInitOk = 1 /\ nInitErr = 0
    /\ once = "COMPLETE" /\ slot = winVal

\* ---- specification: fetching threads that may panic, fairly scheduled ---
\* a thread inside fetch is runnable: the scheduler lets it take its next
\* step when that step stays possible
FetchStep(t) == FetchGet(t) \/ FetchLock(t) \/ FetchExpect(t)

\* the threads of SpecLive, any of which may also panic in the scope of
\* its guard
NextPoison == NextLive \/ \E t \in Threads : PanicInScope(t)

SpecPoison ==
    Init /\ [][NextPoison]_vars /\ \A t \in Threads : WF_vars(FetchStep(t))

\* C16: the panic of a guard owner clears the lock bit and sets the poison
\* flag, which is never cleared; while the flag is set no thread is in the
\* body with a guard; every thread that is inside fetch while the flag is
\* set ends with "global lock poisoned", and the step in which it does so
\* drops the guard it got from lock() and clears the lock bit.
C16_PoisonFailsFast ==
    /\ [][/\ poisoned => poisoned'
          /\ \A t \in Threads :
                (guard[t] /\ pc'[t] = "panicked") =>
                    (poisoned' /\ ~locked' /\ ~guard'[t])]_vars
    /\ [](poisoned => \A t \in Threads : pc[t] \notin BodyPcs)
    /\ \A t \in Threads :
          (poisoned /\ pc[t] \in {"fetch_get", "fetch_lock", "fetch_expect"})
             ~> (/\ pc[t] = "panicked"
                 /\ err[t] = "global lock poisoned"
                 /\ ~guard[t]
                 /\ poisoned)

C16_Witness ==
    /\ poisoned /\ locked
    /\ \E t, u \in Threads :
          /\ pc[t] = "fetch_expect" /\ guard[t]
          /\ err[u] = "caller panicked"

\* ---- specification: demo-sync, scheduled while a thread can run ----------
SpecDemoFair == InitDemo /\ [][NextDemo]_vars /\ WF_vars(NextDemo)

\* C20: in demo-sync no thread ever panics or could take the failing branch
\* of init or the re-entrant lock, the cell is never poisoned, some thread
\* can step in every state in which main has not returned, and in the end
\* main has returned after the thread finished and three results were
\* printed.
C20_DemoTerminates ==
    /\ [](\A t \in Threads :
            /\ err[t] = ""
            /\ pc[t] # "panicked"
            /\ ~ENABLED SetFail(t)
            /\ ~ENABLED FetchLockSelf(t))
    /\ [](nInitErr = 0 /\ ~poisoned)
    /\ [](pc[Main] = "done" \/ ENABLED NextDemo)
    /\ <>[](/\ pc[Main] = "done"
            /\ pc[Spawned] = "done"
            /\ Len(out) = 3
            /\ Holders = {})

C20_Witness ==
    /\ pc[Main] = "done" /\ todo[Main] = <<>>
    /\ pc[Spawned] = "done"
    /\ incBy[Main] = 2 /\ incBy[Spawned] = 1
    /\ nInitOk = 1
    /\ \A t \in Threads : err[t] = ""

====
